---- MODULE Spec2Model ----
(***************************************************************************)
(* The CustomBorders plugin (src/src/plugins/customBorders/customBorders.js)*)
(* as a state machine.                                                     *)
(*                                                                         *)
(* State of the plugin and of the host objects it writes to:               *)
(*   savedBorders     this.savedBorders, the registry (an array of border  *)
(*                    objects);                                            *)
(*   cellMeta         the host's cell metadata under the key 'borders'     *)
(*                    (hot.setCellMeta / getCellMeta / removeCellMeta), a   *)
(*                    function from className to the border object;        *)
(*   customSelection  hot.selection.highlight.customSelection, the list of *)
(*                    decorations, each kept by the className of its       *)
(*                    settings (the only field the plugin reads back);     *)
(*   calls            the calls of setBorder and removeAllBorders made by   *)
(*                    the last operation, in order (a log, read by no      *)
(*                    handler).                                            *)
(*                                                                         *)
(* JavaScript object identity.  A border object is created by              *)
(* createEmptyBorders, stored by reference in the cell metadata and pushed *)
(* by reference into savedBorders.  The only in-place mutation of a border *)
(* object is setBorder's bordersMeta[place] = ..., made through the        *)
(* reference held by the cell metadata; the metadata of a cell is never    *)
(* pointed back at an older object.  So an object that is no longer the    *)
(* one in the cell metadata never changes again, and the heap is encoded   *)
(* without addresses: a slot of savedBorders is [border, shared], where    *)
(* shared = TRUE says that the slot holds the very object that             *)
(* cellMeta[border.className] holds (a write through one is seen through   *)
(* the other), and shared = FALSE that it holds a distinct object.         *)
(***************************************************************************)
EXTENDS Integers, Sequences, FiniteSets, TLC

VARIABLES savedBorders, cellMeta, customSelection, calls, last, pre, nops

vars == <<savedBorders, cellMeta, customSelection, calls, last, pre, nops>>

(***************************************************************************)
(* Bounds of the model.                                                    *)
(***************************************************************************)
\* number of public operations that follow the afterInit hook in one behaviour
MaxOps == 1
\* rows 0..RangeMaxRow, columns 0..RangeMaxCol: the grid of the range expansion
RangeMaxRow == 3
RangeMaxCol == 4
\* rows 0..SelMaxRow, columns 0..SelMaxCol: the grid of the selections
SelMaxRow == 2
SelMaxCol == 2

(***************************************************************************)
(* Values.                                                                 *)
(***************************************************************************)
Edges == {"top", "right", "bottom", "left"}

\* createSingleEmptyBorder(): { hide: true }
createSingleEmptyBorder == "hide"

\* createDefaultCustomBorder(): { width: 1, color: '#000' }
createDefaultCustomBorder == "default"

\* a configuration entry that does not own the property
Absent == "absent"

\* the identity key of a cell
createClassName(row, col) == <<row, col>>

\* an all-Hidden border object of the cell
createEmptyBorders(row, col) ==
  [row |-> row, col |-> col, className |-> createClassName(row, col),
   top |-> createSingleEmptyBorder, right |-> createSingleEmptyBorder,
   bottom |-> createSingleEmptyBorder, left |-> createSingleEmptyBorder]

\* hasOwnProperty(obj, key) for the four edge keys of a configuration entry
hasOwnProperty(obj, key) == obj[key] # Absent

\* copy onto the border the edges the entry owns
extendDefaultBorder(border, customBorder) ==
  [k \in DOMAIN border |->
     IF k \in Edges /\ hasOwnProperty(customBorder, k) THEN customBorder[k]
     ELSE border[k]]

\* rangeEach(from, to, f): the indexes f is called with, in order
RangeSeq(from, to) ==
  IF to < from THEN <<>> ELSE [i \in 1..(to - from + 1) |-> from + i - 1]

(***************************************************************************)
(* Array helpers (JavaScript semantics).                                   *)
(***************************************************************************)
\* array.map((o) => o.border.className)
ClassNames(arr) == [i \in 1..Len(arr) |-> arr[i].border.className]

\* Array.prototype.indexOf over a sequence: 0-based index, -1 when absent
IndexOf(seq, x) ==
  IF \E i \in 1..Len(seq) : seq[i] = x
  THEN (CHOOSE i \in 1..Len(seq) : seq[i] = x /\ \A j \in 1..(i - 1) : seq[j] # x) - 1
  ELSE -1

\* Array.prototype.splice(index, 1): a negative index counts from the end
Splice1(seq, index) ==
  LET n == Len(seq)
      start == IF index < 0 THEN (IF n + index < 0 THEN 0 ELSE n + index)
               ELSE (IF index > n THEN n ELSE index)
  IN  IF start >= n THEN seq
      ELSE [i \in 1..(n - 1) |-> IF i <= start THEN seq[i] ELSE seq[i + 1]]

\* the elements for which keep[i] holds, in order
RECURSIVE FilterIdx(_, _, _)
FilterIdx(seq, keep, i) ==
  IF i > Len(seq) THEN <<>>
  ELSE (IF keep[i] THEN <<seq[i]>> ELSE <<>>) \o FilterIdx(seq, keep, i + 1)

\* the calls f(s, x) made for each x of seq in order, threading the state s
RECURSIVE ForEach(_, _, _)
ForEach(f(_, _), s, seq) ==
  IF seq = <<>> THEN s
  ELSE LET next == f(s, Head(seq))
       IN  IF next = next THEN ForEach(f, next, Tail(seq)) ELSE s

(***************************************************************************)
(* The host's stores and the plugin's handlers, as functions of the three  *)
(* stores s = [savedBorders, cellMeta, customSelection] and the log calls. *)
(***************************************************************************)
\* the slots of the cell stop aliasing the metadata object: the cell's metadata
\* now holds another object, or none
Unshare(arr, className) ==
  [i \in 1..Len(arr) |->
     IF arr[i].border.className = className THEN [arr[i] EXCEPT !.shared = FALSE]
     ELSE arr[i]]

\* hot.getCellMeta(row, col).borders is defined
hasCellMeta(s, row, col) == createClassName(row, col) \in DOMAIN s.cellMeta

\* hot.setCellMeta(row, col, 'borders', border), border an object made in this call
setCellMeta(s, border) ==
  [s EXCEPT
     !.cellMeta = [cn \in (DOMAIN s.cellMeta) \cup {border.className} |->
                     IF cn = border.className THEN border ELSE s.cellMeta[cn]],
     !.savedBorders = Unshare(s.savedBorders, border.className)]

\* hot.removeCellMeta(row, col, 'borders')
removeCellMeta(s, row, col) ==
  LET cn == createClassName(row, col) IN
  [s EXCEPT
     !.cellMeta = [c \in (DOMAIN s.cellMeta) \ {cn} |-> s.cellMeta[c]],
     !.savedBorders = Unshare(s.savedBorders, cn)]

\* Dedup without the filter: the pushed slot always stays
DedupKeepsAll(arr) == arr

\* Dedup keeping the last slot of a className instead of the first
DedupKeepsLast(arr) ==
  LET names == ClassNames(arr)
      keep == [i \in 1..Len(arr) |-> \A j \in (i + 1)..Len(arr) : names[j] # names[i]]
  IN  FilterIdx(arr, keep, 1)

\* savedBorders.filter(...): keep a slot when it is the first of its className
Dedup(arr) ==
  LET names == ClassNames(arr)
      keep == [i \in 1..Len(arr) |-> IndexOf(names, names[i]) = i - 1]
  IN  FilterIdx(arr, keep, 1)

\* insertBorderIntoSettings(border): border is the object just stored in the cell
\* metadata.  createHighlight makes a new selection object on every call, so
\* customSelection.includes(selection) is false and the selection is added.
insertBorderIntoSettings(s, border) ==
  [s EXCEPT
     !.savedBorders = Dedup(Append(s.savedBorders, [border |-> border, shared |-> TRUE])),
     !.customSelection = Append(s.customSelection, border.className)]

\* prepareBorderFromCustomAdded(row, col, borderObj)
prepareBorderFromCustomAdded(s, row, col, borderObj) ==
  LET border == extendDefaultBorder(createEmptyBorders(row, col), borderObj)
  IN  insertBorderIntoSettings(setCellMeta(s, border), border)

\* RangeBorder with the bottom edge tested against range.from.row
RangeBorderBottomAtFrom(rowObj, rowIndex, colIndex) ==
  LET range == rowObj.range
      b0 == createEmptyBorders(rowIndex, colIndex)
      b1 == IF rowIndex = range.from.row /\ hasOwnProperty(rowObj, "top")
            THEN [b0 EXCEPT !.top = rowObj.top] ELSE b0
      b2 == IF rowIndex = range.from.row /\ hasOwnProperty(rowObj, "bottom")
            THEN [b1 EXCEPT !.bottom = rowObj.bottom] ELSE b1
      b3 == IF colIndex = range.from.col /\ hasOwnProperty(rowObj, "left")
            THEN [b2 EXCEPT !.left = rowObj.left] ELSE b2
      b4 == IF colIndex = range.to.col /\ hasOwnProperty(rowObj, "right")
            THEN [b3 EXCEPT !.right = rowObj.right] ELSE b3
  IN  b4

\* the border object the range expansion builds for the cell (rowIndex, colIndex)
RangeBorder(rowObj, rowIndex, colIndex) ==
  LET range == rowObj.range
      b0 == createEmptyBorders(rowIndex, colIndex)
      b1 == IF rowIndex = range.from.row /\ hasOwnProperty(rowObj, "top")
            THEN [b0 EXCEPT !.top = rowObj.top] ELSE b0
      b2 == IF rowIndex = range.to.row /\ hasOwnProperty(rowObj, "bottom")
            THEN [b1 EXCEPT !.bottom = rowObj.bottom] ELSE b1
      b3 == IF colIndex = range.from.col /\ hasOwnProperty(rowObj, "left")
            THEN [b2 EXCEPT !.left = rowObj.left] ELSE b2
      b4 == IF colIndex = range.to.col /\ hasOwnProperty(rowObj, "right")
            THEN [b3 EXCEPT !.right = rowObj.right] ELSE b3
  IN  b4

\* RangeAdd that counts every cell of the range
RangeAddEveryCell(rowObj, rowIndex, colIndex) == 1

\* the counter add of the range expansion for the cell
RangeAdd(rowObj, rowIndex, colIndex) ==
  LET range == rowObj.range IN
    (IF rowIndex = range.from.row THEN 1 ELSE 0)
  + (IF rowIndex = range.to.row THEN 1 ELSE 0)
  + (IF colIndex = range.from.col THEN 1 ELSE 0)
  + (IF colIndex = range.to.col THEN 1 ELSE 0)

\* the body of the inner loop of prepareBorderFromCustomAddedRange
RangeCell(s, rowObj, rowIndex, colIndex) ==
  LET border == RangeBorder(rowObj, rowIndex, colIndex) IN
  IF RangeAdd(rowObj, rowIndex, colIndex) > 0
  THEN insertBorderIntoSettings(setCellMeta(s, border), border)
  ELSE s

\* the indexes between two bounds given in either order
RangeSeqEitherOrder(from, to) ==
  IF to < from THEN RangeSeq(to, from) ELSE RangeSeq(from, to)

\* prepareBorderFromCustomAddedRange walking a range whose corners are swapped
prepareBorderFromCustomAddedRangeEitherOrder(s, rowObj) ==
  LET range == rowObj.range IN
  ForEach(LAMBDA s1, rowIndex :
            ForEach(LAMBDA s2, colIndex : RangeCell(s2, rowObj, rowIndex, colIndex),
                    s1, RangeSeqEitherOrder(range.from.col, range.to.col)),
          s, RangeSeqEitherOrder(range.from.row, range.to.row))

\* prepareBorderFromCustomAddedRange(rowObj)
prepareBorderFromCustomAddedRange(s, rowObj) ==
  LET range == rowObj.range IN
  ForEach(LAMBDA s1, rowIndex :
            ForEach(LAMBDA s2, colIndex : RangeCell(s2, rowObj, rowIndex, colIndex),
                    s1, RangeSeq(range.from.col, range.to.col)),
          s, RangeSeq(range.from.row, range.to.row))

\* removeClassBorderFromTDs(borderClassName): the first selection of that
\* className is spliced out and the loop breaks
removeClassBorderFromTDs(s, borderClassName) ==
  LET index == IndexOf(s.customSelection, borderClassName) IN
  IF index = -1 THEN s
  ELSE [s EXCEPT !.customSelection = Splice1(s.customSelection, index)]

\* removeBordersFromDom(borderClassName): the DOM nodes are not part of the state
removeBordersFromDom(s, borderClassName) ==
  removeClassBorderFromTDs(s, borderClassName)

\* removeAllBorders without the removeCellMeta call
removeAllBordersKeepsMeta(s, row, col) ==
  LET borderClassName == createClassName(row, col)
      index == IndexOf(ClassNames(s.savedBorders), borderClassName)
      s1 == [s EXCEPT !.savedBorders = Splice1(s.savedBorders, index),
                      !.calls = Append(s.calls, <<"removeAllBorders", row, col>>)]
  IN  removeBordersFromDom(s1, borderClassName)

\* removeAllBorders(row, col)
removeAllBorders(s, row, col) ==
  LET borderClassName == createClassName(row, col)
      index == IndexOf(ClassNames(s.savedBorders), borderClassName)
      s1 == [s EXCEPT !.savedBorders = Splice1(s.savedBorders, index),
                      !.calls = Append(s.calls, <<"removeAllBorders", row, col>>)]
  IN  removeCellMeta(removeBordersFromDom(s1, borderClassName), row, col)

\* setBorder(row, col, place, remove).  An existing metadata object is written in
\* place, so every slot that shares it shows the write; a missing one is created.
\* A place that is no edge name adds a property the model does not keep.
setBorder(s, row, col, place, remove) ==
  LET cn == createClassName(row, col)
      old == IF hasCellMeta(s, row, col) THEN s.cellMeta[cn]
             ELSE createEmptyBorders(row, col)
      value == IF remove THEN createSingleEmptyBorder ELSE createDefaultCustomBorder
      bordersMeta == IF place \in Edges THEN [old EXCEPT ![place] = value] ELSE old
      s1 == IF hasCellMeta(s, row, col)
            THEN [s EXCEPT
                    !.cellMeta[cn] = bordersMeta,
                    !.savedBorders =
                       [i \in 1..Len(s.savedBorders) |->
                          IF s.savedBorders[i].border.className = cn
                             /\ s.savedBorders[i].shared
                          THEN [s.savedBorders[i] EXCEPT !.border = bordersMeta]
                          ELSE s.savedBorders[i]]]
            ELSE setCellMeta(s, bordersMeta)
      s2 == [s1 EXCEPT !.calls = Append(s.calls, <<"setBorder", row, col>>)]
  IN  insertBorderIntoSettings(removeBordersFromDom(s2, cn), bordersMeta)

\* NoBordersCells with the inner loop stopping one row short
NoBordersCellsRowShort(start, end) ==
  ForEach(LAMBDA acc, colIndex :
            acc \o [i \in 1..Len(RangeSeq(start.row, end.row - 1)) |->
                      <<RangeSeq(start.row, end.row - 1)[i], colIndex>>],
          <<>>, RangeSeq(start.col, end.col))

\* the cells removeAllBorders is called for, in call order, when 'noBorders' is
\* applied to a rectangle of several cells: columns outside, rows inside
NoBordersCells(start, end) ==
  ForEach(LAMBDA acc, colIndex :
            acc \o [i \in 1..Len(RangeSeq(start.row, end.row)) |->
                      <<RangeSeq(start.row, end.row)[i], colIndex>>],
          <<>>, RangeSeq(start.col, end.col))

\* LineCells with 'right' walking the column start.col
LineCellsRightAtStart(start, end, place) ==
  CASE place = "top" ->
         [i \in 1..Len(RangeSeq(start.col, end.col)) |->
            <<start.row, RangeSeq(start.col, end.col)[i]>>]
    [] place = "right" ->
         [i \in 1..Len(RangeSeq(start.row, end.row)) |->
            <<RangeSeq(start.row, end.row)[i], start.col>>]
    [] place = "bottom" ->
         [i \in 1..Len(RangeSeq(start.col, end.col)) |->
            <<end.row, RangeSeq(start.col, end.col)[i]>>]
    [] place = "left" ->
         [i \in 1..Len(RangeSeq(start.row, end.row)) |->
            <<RangeSeq(start.row, end.row)[i], start.col>>]
    [] OTHER -> <<>>

\* the cells setBorder is called for, in call order, when the edge place is
\* applied to a rectangle of several cells
LineCells(start, end, place) ==
  CASE place = "top" ->
         [i \in 1..Len(RangeSeq(start.col, end.col)) |->
            <<start.row, RangeSeq(start.col, end.col)[i]>>]
    [] place = "right" ->
         [i \in 1..Len(RangeSeq(start.row, end.row)) |->
            <<RangeSeq(start.row, end.row)[i], end.col>>]
    [] place = "bottom" ->
         [i \in 1..Len(RangeSeq(start.col, end.col)) |->
            <<end.row, RangeSeq(start.col, end.col)[i]>>]
    [] place = "left" ->
         [i \in 1..Len(RangeSeq(start.row, end.row)) |->
            <<RangeSeq(start.row, end.row)[i], start.col>>]
    [] OTHER -> <<>>

\* one rectangle {start, end} of the selection list handed to prepareBorder
PrepareRect(s, rect, place, remove) ==
  LET start == rect.start
      end == rect.end
  IN
  IF start.row = end.row /\ start.col = end.col
  THEN IF place = "noBorders" THEN removeAllBorders(s, start.row, start.col)
       ELSE setBorder(s, start.row, start.col, place, remove)
  ELSE IF place = "noBorders"
       THEN ForEach(LAMBDA s1, cell : removeAllBorders(s1, cell[1], cell[2]),
                    s, NoBordersCells(start, end))
       ELSE ForEach(LAMBDA s1, cell : setBorder(s1, cell[1], cell[2], place, remove),
                    s, LineCells(start, end, place))

\* prepareBorder(selected, place, remove)
prepareBorder(s, selected, place, remove) ==
  ForEach(LAMBDA s1, rect : PrepareRect(s1, rect, place, remove), s, selected)

\* customBorders[index].range is set
HasRange(entry) == "range" \in DOMAIN entry

\* createCustomBorders(customBorders): the entries are read from the array the
\* call was given; a registry object read as an entry owns its four edges
createCustomBorders(s, customBorders) ==
  ForEach(LAMBDA s1, entry :
            IF HasRange(entry) THEN prepareBorderFromCustomAddedRange(s1, entry)
            ELSE prepareBorderFromCustomAdded(s1, entry.row, entry.col, entry),
          s, customBorders)

\* clearBorders()
clearBorders(s) ==
  ForEach(LAMBDA s1, index : removeBordersFromDom(s1, s.savedBorders[index + 1].border.className),
          s, RangeSeq(0, Len(s.savedBorders) - 1))

\* the values of the setting customBorders: an array of entries, a value that is
\* no array (true), or undefined
ArraySetting(entries) == [kind |-> "array", entries |-> entries]
NonArraySetting == [kind |-> "nonarray"]
UndefinedSetting == [kind |-> "undefined"]

\* changeBorderSettings without the replay of savedBorders for a non-array value
changeBorderSettingsNoReplay(s, customBorders) ==
  IF customBorders.kind = "array"
  THEN LET s1 == IF Len(customBorders.entries) = 0
                 THEN [s EXCEPT !.savedBorders = <<>>] ELSE s
       IN  createCustomBorders(s1, customBorders.entries)
  ELSE s

\* changeBorderSettings()
changeBorderSettings(s, customBorders) ==
  IF customBorders.kind = "array"
  THEN LET s1 == IF Len(customBorders.entries) = 0
                 THEN [s EXCEPT !.savedBorders = <<>>] ELSE s
       IN  createCustomBorders(s1, customBorders.entries)
  ELSE IF customBorders.kind # "undefined"
       THEN createCustomBorders(s, [i \in 1..Len(s.savedBorders) |-> s.savedBorders[i].border])
       ELSE s

\* disablePlugin()
disablePlugin(s) == clearBorders(s)

\* updatePlugin()
updatePlugin(s, customBorders) == changeBorderSettings(disablePlugin(s), customBorders)

\* onAfterInit()
onAfterInit(s, customBorders) == changeBorderSettings(s, customBorders)

(***************************************************************************)
(* Inputs.                                                                 *)
(***************************************************************************)
Coord(row, col) == [row |-> row, col |-> col]

\* a single-cell configuration entry {row, col, top?, right?, bottom?, left?}
CellEntry(row, col, top, right, bottom, left) ==
  [row |-> row, col |-> col,
   top |-> top, right |-> right, bottom |-> bottom, left |-> left]

\* a range configuration entry {range: {from, to}, top?, right?, bottom?, left?}
RangeEntry(from, to, top, right, bottom, left) ==
  [range |-> [from |-> from, to |-> to],
   top |-> top, right |-> right, bottom |-> bottom, left |-> left]

\* the interactive operations are called for the cells of the top left 2x2 block
MainRows == {0, 1}
MainCols == {0, 1}

\* the rectangles of a normalized selection: start is the top left corner
MainRects ==
  {[start |-> Coord(r1, c1), end |-> Coord(r2, c2)] :
     <<r1, c1, r2, c2>> \in
       {q \in MainRows \X MainCols \X MainRows \X MainCols : q[1] <= q[3] /\ q[2] <= q[4]}}

\* the edge keywords of the context menu, and one that is none of them
Places == Edges \cup {"noBorders", "unknown"}

\* the configuration entries of the settings the model loads
MainEntries ==
  { CellEntry(0, 0, "red", Absent, Absent, Absent),
    CellEntry(0, 0, "green", Absent, Absent, createSingleEmptyBorder),
    CellEntry(1, 1, Absent, "red", "green", Absent),
    RangeEntry(Coord(0, 0), Coord(1, 1), "red", "red", "red", "red"),
    RangeEntry(Coord(0, 0), Coord(0, 1), "green", Absent, Absent, Absent) }

\* the empty array, and the arrays of one and of two entries
MainArrays ==
  {<<>>} \cup {<<e>> : e \in MainEntries}
         \cup {<<e1, e2>> : <<e1, e2>> \in MainEntries \X MainEntries}

MainSettings == {ArraySetting(a) : a \in MainArrays} \cup {NonArraySetting}

(***************************************************************************)
(* The state machine.  last names the operation that produced the state    *)
(* and its arguments, pre holds the three stores as they were before it.   *)
(***************************************************************************)
Hot == [savedBorders |-> savedBorders, cellMeta |-> cellMeta,
        customSelection |-> customSelection, calls |-> <<>>]

EmptyHot == [savedBorders |-> <<>>, cellMeta |-> <<>>, customSelection |-> <<>>,
             calls |-> <<>>]

\* the stores become s after the operation op
Commit(s, op) ==
  /\ savedBorders' = s.savedBorders
  /\ cellMeta' = s.cellMeta
  /\ customSelection' = s.customSelection
  /\ calls' = s.calls
  /\ last' = op
  /\ pre' = Hot
  /\ nops' = nops + 1

Init ==
  /\ savedBorders = <<>>
  /\ cellMeta = <<>>
  /\ customSelection = <<>>
  /\ calls = <<>>
  /\ last = [op |-> "constructor"]
  /\ pre = EmptyHot
  /\ nops = 0

\* the afterInit hook, once, with the initial settings
OnAfterInit ==
  /\ last.op = "constructor"
  /\ \E setting \in MainSettings :
       Commit(onAfterInit(Hot, setting), [op |-> "onAfterInit", setting |-> setting])

Ready == last.op # "constructor" /\ nops <= MaxOps

SetBorder ==
  /\ Ready
  /\ \E row \in MainRows, col \in MainCols, place \in Edges, remove \in BOOLEAN :
       Commit(setBorder(Hot, row, col, place, remove),
              [op |-> "setBorder", row |-> row, col |-> col,
               place |-> place, remove |-> remove])

RemoveAllBorders ==
  /\ Ready
  /\ \E row \in MainRows, col \in MainCols :
       Commit(removeAllBorders(Hot, row, col),
              [op |-> "removeAllBorders", row |-> row, col |-> col])

PrepareBorder ==
  /\ Ready
  /\ \E rect \in MainRects, place \in Places, remove \in BOOLEAN :
       Commit(prepareBorder(Hot, <<rect>>, place, remove),
              [op |-> "prepareBorder", selected |-> <<rect>>,
               place |-> place, remove |-> remove])

UpdatePlugin ==
  /\ Ready
  /\ \E setting \in MainSettings :
       Commit(updatePlugin(Hot, setting), [op |-> "updatePlugin", setting |-> setting])

DisablePlugin ==
  /\ Ready
  /\ Commit(disablePlugin(Hot), [op |-> "disablePlugin"])

Next ==
  \/ OnAfterInit
  \/ SetBorder
  \/ RemoveAllBorders
  \/ PrepareBorder
  \/ UpdatePlugin
  \/ DisablePlugin

Spec == Init /\ [][Next]_vars

(***************************************************************************)
(* Range expansion alone: prepareBorderFromCustomAddedRange applied to an  *)
(* empty registry, for every range of the grid (to before from included)   *)
(* and every choice of supplied edge fields.                               *)
(***************************************************************************)
RangeCoords == {Coord(r, c) : <<r, c>> \in (0..RangeMaxRow) \X (0..RangeMaxCol)}

\* an edge field is missing, or holds a style, or the Hidden sentinel
FieldValues == {Absent, "red", createSingleEmptyBorder}

RangeEntries ==
  {RangeEntry(f, t, v[1], v[2], v[3], v[4]) :
     <<f, t, v>> \in RangeCoords \X RangeCoords
                       \X (FieldValues \X FieldValues \X FieldValues \X FieldValues)}

ExpandRange ==
  /\ last.op = "constructor"
  /\ \E rowObj \in RangeEntries :
       Commit(prepareBorderFromCustomAddedRange(Hot, rowObj),
              [op |-> "prepareBorderFromCustomAddedRange", rowObj |-> rowObj])

RangeNext == ExpandRange

SpecRange == Init /\ [][RangeNext]_vars

(***************************************************************************)
(* Selections: one prepareBorder call on the stores left by a configuration *)
(* load and, possibly, one removeAllBorders call, over a grid large enough *)
(* for a rectangle with an interior.                                       *)
(***************************************************************************)
SelRows == 0..SelMaxRow
SelCols == 0..SelMaxCol

SelRects ==
  {[start |-> Coord(r1, c1), end |-> Coord(r2, c2)] :
     <<r1, c1, r2, c2>> \in
       {q \in SelRows \X SelCols \X SelRows \X SelCols : q[1] <= q[3] /\ q[2] <= q[4]}}

\* a second rectangle of a selection made with the Ctrl key
SelSecondRects ==
  { [start |-> Coord(0, 0), end |-> Coord(0, 0)],
    [start |-> Coord(0, 0), end |-> Coord(SelMaxRow, SelMaxCol)] }

SelSelections ==
  {<<r>> : r \in SelRects} \cup {<<r1, r2>> : <<r1, r2>> \in SelRects \X SelSecondRects}

SelEntries ==
  { RangeEntry(Coord(0, 0), Coord(SelMaxRow, SelMaxCol), "red", "red", "red", "red"),
    RangeEntry(Coord(0, 0), Coord(1, 1), "green", "green", "green", "green"),
    CellEntry(1, 1, "red", Absent, Absent, Absent),
    CellEntry(1, 1, Absent, Absent, Absent, "green"),
    CellEntry(0, 0, "red", Absent, Absent, Absent) }

SelSettings ==
  {ArraySetting(a) : a \in {<<>>} \cup {<<e>> : e \in SelEntries}
                             \cup {<<e1, e2>> : <<e1, e2>> \in SelEntries \X SelEntries}}

SelOnAfterInit ==
  /\ last.op = "constructor"
  /\ \E setting \in SelSettings :
       Commit(onAfterInit(Hot, setting), [op |-> "onAfterInit", setting |-> setting])

\* the cells cleared one by one before the selection is made
SelClearCells == {<<0, 0>>, <<1, 1>>}

SelRemoveAllBorders ==
  /\ last.op = "onAfterInit"
  /\ \E cell \in SelClearCells :
       Commit(removeAllBorders(Hot, cell[1], cell[2]),
              [op |-> "removeAllBorders", row |-> cell[1], col |-> cell[2]])

SelPrepareBorder ==
  /\ last.op \in {"onAfterInit", "removeAllBorders"}
  /\ \E selected \in SelSelections, place \in Places, remove \in BOOLEAN :
       Commit(prepareBorder(Hot, selected, place, remove),
              [op |-> "prepareBorder", selected |-> selected,
               place |-> place, remove |-> remove])

SelNext == SelOnAfterInit \/ SelRemoveAllBorders \/ SelPrepareBorder

SpecSelect == Init /\ [][SelNext]_vars

(***************************************************************************)
(* One configuration entry applied to the stores left by a configuration   *)
(* load: a single-cell entry (prepareBorderFromCustomAdded) with every     *)
(* choice of its edge fields, or a range entry                             *)
(* (prepareBorderFromCustomAddedRange) between any two cells, to before    *)
(* from included.                                                          *)
(***************************************************************************)
EntryCoords == {Coord(r, c) : <<r, c>> \in MainRows \X MainCols}

\* the edge fields of the range entries: all four, the top only, none
EntryRangeFields ==
  { <<"green", "green", "green", "green">>,
    <<"green", Absent, Absent, Absent>>,
    <<Absent, Absent, Absent, Absent>> }

EntryPrepareBorderFromCustomAdded ==
  /\ last.op = "onAfterInit"
  /\ \E c \in EntryCoords, v \in FieldValues \X FieldValues \X FieldValues \X FieldValues :
       Commit(prepareBorderFromCustomAdded(Hot, c.row, c.col,
                                           CellEntry(c.row, c.col, v[1], v[2], v[3], v[4])),
              [op |-> "prepareBorderFromCustomAdded", row |-> c.row, col |-> c.col,
               borderObj |-> CellEntry(c.row, c.col, v[1], v[2], v[3], v[4])])

EntryExpandRange ==
  /\ last.op = "onAfterInit"
  /\ \E f \in EntryCoords, t \in EntryCoords, v \in EntryRangeFields :
       Commit(prepareBorderFromCustomAddedRange(Hot, RangeEntry(f, t, v[1], v[2], v[3], v[4])),
              [op |-> "prepareBorderFromCustomAddedRange",
               rowObj |-> RangeEntry(f, t, v[1], v[2], v[3], v[4])])

EntryNext == OnAfterInit \/ EntryPrepareBorderFromCustomAdded \/ EntryExpandRange

SpecEntry == Init /\ [][EntryNext]_vars

(***************************************************************************)
(* updatePlugin run twice in a row with the same configuration array, on   *)
(* the stores left by a configuration load.  last.run counts the runs.     *)
(***************************************************************************)
UpdateFirst ==
  /\ last.op = "onAfterInit"
  /\ \E a \in MainArrays :
       Commit(updatePlugin(Hot, ArraySetting(a)),
              [op |-> "updatePlugin", setting |-> ArraySetting(a), run |-> 1])

UpdateAgain ==
  /\ last.op = "updatePlugin"
  /\ last.run = 1
  /\ Commit(updatePlugin(Hot, last.setting),
            [op |-> "updatePlugin", setting |-> last.setting, run |-> 2])

UpdateNext == OnAfterInit \/ UpdateFirst \/ UpdateAgain

SpecUpdate == Init /\ [][UpdateNext]_vars

(***************************************************************************)
(* Properties.                                                             *)
(***************************************************************************)
\* the cells that have a record in the registry arr
RegCells(arr) == {arr[i].border.className : i \in 1..Len(arr)}

\* the slots of arr whose cell is outside the set of cells S, in order
SlotsOutside(arr, S) ==
  FilterIdx(arr, [i \in 1..Len(arr) |-> arr[i].border.className \notin S], 1)

\* the cell the last operation was called for
LastCell == createClassName(last.row, last.col)

\* C1: after any sequence of public operations, the cells with a record in
\* savedBorders are exactly the cells with a 'borders' entry in the cell metadata.
C1_RegistryMirrorsMetadata ==
  last.op # "constructor" => RegCells(savedBorders) = DOMAIN cellMeta

\* C2: in every reachable state savedBorders holds at most one record per cell:
\* no two slots share a className.
C2_OneRecordPerCell ==
  \A i, j \in 1..Len(savedBorders) :
    savedBorders[i].border.className = savedBorders[j].border.className => i = j

\* a record was inserted for a cell that already had one, next to another cell's
C2_Witness ==
  /\ last.op = "setBorder"
  /\ LastCell \in RegCells(pre.savedBorders)
  /\ LastCell \in RegCells(savedBorders)
  /\ Len(savedBorders) >= 2

\* C3: removeAllBorders(row, col) keeps the record of every other cell that was in
\* savedBorders before the call, also when (row, col) itself has no record.
C3_RemoveAllBordersKeepsOtherCells ==
  last.op = "removeAllBorders" =>
    \A i \in 1..Len(pre.savedBorders) :
      pre.savedBorders[i].border.className # LastCell =>
        \E j \in 1..Len(savedBorders) :
          savedBorders[j].border = pre.savedBorders[i].border

\* C4: after removeAllBorders(row, col) on a cell that had a record, neither
\* savedBorders nor the cell metadata has an entry for (row, col).
C4_RemoveAllBordersClearsCell ==
  (last.op = "removeAllBorders" /\ LastCell \in RegCells(pre.savedBorders)) =>
    /\ LastCell \notin RegCells(savedBorders)
    /\ LastCell \notin DOMAIN cellMeta

\* removeAllBorders ran on a cell with a record and a metadata entry, other cells
\* having records too
C4_Witness ==
  /\ last.op = "removeAllBorders"
  /\ LastCell \in RegCells(pre.savedBorders)
  /\ LastCell \in DOMAIN pre.cellMeta
  /\ Len(pre.savedBorders) >= 2
  /\ Len(savedBorders) = Len(pre.savedBorders) - 1

\* the range of the last range expansion, and whether from is not after to
LastRange == last.rowObj.range

RangeOrdered(range) ==
  range.from.row <= range.to.row /\ range.from.col <= range.to.col

\* the cells of the rectangle between two corners
RectCells(from, to) ==
  {<<r, c>> \in (from.row..to.row) \X (from.col..to.col) : TRUE}

\* the boundary condition of edge e of the range at the cell (r, c)
OnBoundary(range, e, r, c) ==
  CASE e = "top" -> r = range.from.row
    [] e = "bottom" -> r = range.to.row
    [] e = "left" -> c = range.from.col
    [] e = "right" -> c = range.to.col

\* the cells of the range on its perimeter
Perimeter(range) ==
  {cell \in RectCells(range.from, range.to) :
     \E e \in Edges : OnBoundary(range, e, cell[1], cell[2])}

\* the edges of the cell that the entry supplies a value for
SuppliedEdges(rowObj, r, c) ==
  {e \in Edges : OnBoundary(rowObj.range, e, r, c) /\ rowObj[e] # Absent}

\* C5: expanding a range entry into an empty registry creates records only for
\* the cells that receive at least one supplied edge; the range (0,0)-(2,2) with
\* only top supplied yields exactly the 3 records of (0,0), (0,1), (0,2).
C5_RecordsOnlyForSuppliedEdges ==
  (last.op = "prepareBorderFromCustomAddedRange" /\ RangeOrdered(LastRange)) =>
    /\ RegCells(savedBorders) =
         {cell \in RectCells(LastRange.from, LastRange.to) :
            SuppliedEdges(last.rowObj, cell[1], cell[2]) # {}}
    /\ (last.rowObj = RangeEntry(Coord(0, 0), Coord(2, 2), "red", Absent, Absent, Absent)
          => /\ Len(savedBorders) = 3
             /\ RegCells(savedBorders) = {<<0, 0>>, <<0, 1>>, <<0, 2>>})

\* C6: a range with from <= to on both axes and all four edge fields supplied,
\* expanded into an empty registry, gives a record and a metadata entry to exactly
\* the cells of the perimeter, one record each, and to no interior cell.
C6_AllFourEdgesPerimeterOnly ==
  ( /\ last.op = "prepareBorderFromCustomAddedRange"
    /\ RangeOrdered(LastRange)
    /\ \A e \in Edges : last.rowObj[e] # Absent ) =>
    /\ RegCells(savedBorders) = Perimeter(LastRange)
    /\ DOMAIN cellMeta = Perimeter(LastRange)
    /\ Len(savedBorders) = Cardinality(Perimeter(LastRange))
    /\ \A cell \in RectCells(LastRange.from, LastRange.to) \ Perimeter(LastRange) :
         cell \notin RegCells(savedBorders) \cup DOMAIN cellMeta

\* the range (1,1)-(3,4) with four edges: 10 perimeter records, 2 interior cells bare
C6_Witness ==
  /\ last.op = "prepareBorderFromCustomAddedRange"
  /\ LastRange = [from |-> Coord(1, 1), to |-> Coord(3, 4)]
  /\ \A e \in Edges : last.rowObj[e] # Absent
  /\ Len(savedBorders) = 10
  /\ Cardinality(DOMAIN cellMeta) = 10
  /\ {<<2, 2>>, <<2, 3>>} \cap (RegCells(savedBorders) \cup DOMAIN cellMeta) = {}

\* the value the claim gives edge e of the record of cell (r, c)
ExpectedEdge(rowObj, e, r, c) ==
  IF OnBoundary(rowObj.range, e, r, c) /\ rowObj[e] # Absent THEN rowObj[e]
  ELSE createSingleEmptyBorder

\* C7: in a range expansion the record of a touched cell carries the supplied
\* value on edge e exactly when the cell is on e's boundary and the entry supplies
\* e; every other edge of the record is Hidden.  Both the metadata entry and the
\* record the expansion adds to the registry are that record.
C7_RangeRecordEdges ==
  (last.op = "prepareBorderFromCustomAddedRange" /\ RangeOrdered(LastRange)) =>
    /\ \A cell \in DOMAIN cellMeta : \A e \in Edges :
         cellMeta[cell][e] = ExpectedEdge(last.rowObj, e, cell[1], cell[2])
    /\ \A i \in 1..Len(savedBorders) : \A e \in Edges :
         savedBorders[i].border[e] =
           ExpectedEdge(last.rowObj, e, savedBorders[i].border.row,
                        savedBorders[i].border.col)

\* a 1x1 range with four supplied edges: one record, all four edges set
C7_Witness ==
  /\ last.op = "prepareBorderFromCustomAddedRange"
  /\ LastRange = [from |-> Coord(1, 1), to |-> Coord(1, 1)]
  /\ \A e \in Edges : last.rowObj[e] = "red"
  /\ Len(savedBorders) = 1
  /\ \A e \in Edges : savedBorders[1].border[e] = "red" /\ cellMeta[<<1, 1>>][e] = "red"

\* the assignments <<cell, edge, value>> a configuration entry makes
Assigns(entry) ==
  IF HasRange(entry)
  THEN {<<cell, e, entry[e]>> : <<cell, e>> \in
          {x \in RectCells(entry.range.from, entry.range.to) \X Edges :
             x[2] \in SuppliedEdges(entry, x[1][1], x[1][2])}}
  ELSE {<<createClassName(entry.row, entry.col), e, entry[e]>> :
          e \in {k \in Edges : entry[k] # Absent}}

\* C8: when createCustomBorders processes an array in which two entries touch the
\* same cell, the cell's record in the registry and its metadata entry carry the
\* later entry's value for every edge the later entry assigns.
C8_LaterEntryWins ==
  ( /\ last.op = "onAfterInit"
    /\ last.setting.kind = "array"
    /\ Len(last.setting.entries) = 2 ) =>
    \A a \in Assigns(last.setting.entries[2]) :
      /\ a[1] \in DOMAIN cellMeta /\ cellMeta[a[1]][a[2]] = a[3]
      /\ \E i \in 1..Len(savedBorders) :
           /\ savedBorders[i].border.className = a[1]
           /\ savedBorders[i].border[a[2]] = a[3]

\* the rectangles of several cells in the selection of the last prepareBorder call
MultiCellRects ==
  {last.selected[i] : i \in {k \in 1..Len(last.selected) :
     ~(last.selected[k].start.row = last.selected[k].end.row
       /\ last.selected[k].start.col = last.selected[k].end.col)}}

SingleCellRects == {last.selected[i] : i \in 1..Len(last.selected)} \ MultiCellRects

\* the cells a function of the plugin was called for by the last operation
CalledFor(name) == {<<calls[i][2], calls[i][3]>> : i \in {k \in 1..Len(calls) : calls[k][1] = name}}

\* C9: prepareBorder(selection, 'noBorders', _) calls removeAllBorders for every
\* cell of every rectangle of several cells in the selection, interior cells
\* included; afterwards no cell of those rectangles has a record or a metadata entry.
C9_NoBordersClearsWholeRectangle ==
  (last.op = "prepareBorder" /\ last.place = "noBorders") =>
    \A rect \in MultiCellRects : \A cell \in RectCells(rect.start, rect.end) :
      /\ cell \in CalledFor("removeAllBorders")
      /\ cell \notin RegCells(savedBorders)
      /\ cell \notin DOMAIN cellMeta

\* 'noBorders' over the 3x3 rectangle whose interior cell (1,1) had a record
C9_Witness ==
  /\ last.op = "prepareBorder"
  /\ last.place = "noBorders"
  /\ last.selected = <<[start |-> Coord(0, 0), end |-> Coord(2, 2)]>>
  /\ <<1, 1>> \in RegCells(pre.savedBorders) \cap DOMAIN pre.cellMeta
  /\ <<0, 0>> \in RegCells(pre.savedBorders)
  /\ savedBorders = <<>>

\* the boundary line of the rectangle that matches the edge
EdgeLine(rect, place) ==
  CASE place = "top" -> {<<rect.start.row, c>> : c \in rect.start.col..rect.end.col}
    [] place = "bottom" -> {<<rect.end.row, c>> : c \in rect.start.col..rect.end.col}
    [] place = "left" -> {<<r, rect.start.col>> : r \in rect.start.row..rect.end.row}
    [] place = "right" -> {<<r, rect.end.col>> : r \in rect.start.row..rect.end.row}

\* the cells the last prepareBorder call may set an edge of: the matching line of
\* each rectangle of several cells, and each single selected cell
LastLines ==
  UNION {EdgeLine(rect, last.place) : rect \in MultiCellRects}
    \cup UNION {RectCells(rect.start, rect.end) : rect \in SingleCellRects}

\* C10: prepareBorder with a directional edge over a rectangle of several cells
\* calls setBorder for every cell of the boundary line matching the edge and for
\* no other cell; the records and metadata of all cells off that line, inside or
\* outside the rectangle, are unchanged.
C10_EdgeOnlyAlongLine ==
  (last.op = "prepareBorder" /\ last.place \in Edges) =>
    /\ CalledFor("setBorder") = LastLines
    /\ CalledFor("removeAllBorders") = {}
    /\ SlotsOutside(savedBorders, LastLines) = SlotsOutside(pre.savedBorders, LastLines)
    /\ (DOMAIN cellMeta) \ LastLines = (DOMAIN pre.cellMeta) \ LastLines
    /\ \A cell \in (DOMAIN cellMeta) \ LastLines : cellMeta[cell] = pre.cellMeta[cell]
    /\ LastLines \subseteq RegCells(savedBorders) \cap DOMAIN cellMeta

\* 'top' over the 3x3 rectangle: cells off the top row had records and keep them
C10_Witness ==
  /\ last.op = "prepareBorder"
  /\ last.place = "top"
  /\ ~last.remove
  /\ last.selected = <<[start |-> Coord(0, 0), end |-> Coord(2, 2)]>>
  /\ {<<1, 1>>, <<2, 0>>} \subseteq RegCells(pre.savedBorders)
  /\ {<<1, 1>>, <<2, 0>>} \subseteq RegCells(savedBorders)
  /\ \A c \in 0..2 : cellMeta[<<0, c>>].top = createDefaultCustomBorder

\* the border objects of the registry arr, in order
Borders(arr) == [i \in 1..Len(arr) |-> arr[i].border]

\* C11: prepareBorder with an edge keyword that is none of top, right, bottom,
\* left, noBorders changes nothing, whatever the selection list (single-cell
\* rectangles included): registry, metadata store and decoration list are as before.
C11_UnknownPlaceIsNoOp ==
  (last.op = "prepareBorder" /\ last.place \notin Edges \cup {"noBorders"}) =>
    /\ Borders(savedBorders) = Borders(pre.savedBorders)
    /\ cellMeta = pre.cellMeta
    /\ customSelection = pre.customSelection

\* C12: when changeBorderSettings runs with customBorders an empty array, all prior
\* border state is gone afterwards: the registry is empty, no cell has a 'borders'
\* metadata entry and the decoration list holds no border decoration.
C12_EmptyArrayClearsAll ==
  (last.op \in {"onAfterInit", "updatePlugin"} /\ last.setting = ArraySetting(<<>>)) =>
    /\ savedBorders = <<>>
    /\ DOMAIN cellMeta = {}
    /\ customSelection = <<>>

\* the cells with a decoration in the list sel
DecoratedCells(sel) == {sel[i] : i \in 1..Len(sel)}

\* C13: updatePlugin with customBorders a value that is no array and not undefined
\* replays the registry: afterwards the registry has a record for exactly the cells
\* it had before, and each of them has a 'borders' metadata entry and a decoration.
C13_NonArrayReplaysRegistry ==
  (last.op = "updatePlugin" /\ last.setting = NonArraySetting) =>
    /\ RegCells(savedBorders) = RegCells(pre.savedBorders)
    /\ Len(savedBorders) = Len(pre.savedBorders)
    /\ RegCells(savedBorders) \subseteq DOMAIN cellMeta
    /\ RegCells(savedBorders) \subseteq DecoratedCells(customSelection)

\* a replay of a registry of several records
C13_Witness ==
  /\ last.op = "updatePlugin"
  /\ last.setting = NonArraySetting
  /\ Len(pre.savedBorders) >= 2
  /\ RegCells(savedBorders) = RegCells(pre.savedBorders)
  /\ RegCells(savedBorders) \subseteq DOMAIN cellMeta \cap DecoratedCells(customSelection)

\* the first record of the cell in the registry arr
RecordOf(arr, cell) == arr[IndexOf(ClassNames(arr), cell) + 1].border

\* the value setBorder writes for the flag hide
EdgeValue(hide) == IF hide THEN createSingleEmptyBorder ELSE createDefaultCustomBorder

\* C14: setBorder(row, col, edge, hide) with edge one of top, right, bottom, left
\* removes no record and leaves the cell in both stores; afterwards the cell's
\* record in the registry and its metadata entry have the named edge equal to the
\* default visible style (hide false) or Hidden (hide true), and the other three
\* edges as before the call (Hidden when the cell had no record).
C14_SetBorderWritesEdgeInBothStores ==
  (last.op = "setBorder" /\ last.place \in Edges) =>
    /\ RegCells(pre.savedBorders) \subseteq RegCells(savedBorders)
    /\ Len(savedBorders) >= Len(pre.savedBorders)
    /\ LastCell \in RegCells(savedBorders) \cap DOMAIN cellMeta
    /\ cellMeta[LastCell][last.place] = EdgeValue(last.remove)
    /\ RecordOf(savedBorders, LastCell)[last.place] = EdgeValue(last.remove)
    /\ \A e \in Edges \ {last.place} :
         /\ cellMeta[LastCell][e] =
              IF LastCell \in DOMAIN pre.cellMeta THEN pre.cellMeta[LastCell][e]
              ELSE createSingleEmptyBorder
         /\ RecordOf(savedBorders, LastCell)[e] =
              IF LastCell \in RegCells(pre.savedBorders)
              THEN RecordOf(pre.savedBorders, LastCell)[e]
              ELSE createSingleEmptyBorder

\* the number of decorations of the cell in the list sel
DecorationCount(sel, cell) == Cardinality({i \in 1..Len(sel) : sel[i] = cell})

\* C18: in every reachable state the decoration list holds at most one decoration
\* per cell, and one for a cell only if the registry has a record of that cell;
\* after removeAllBorders(row, col) no decoration of (row, col) remains.
C18_OneDecorationPerRecord ==
  /\ \A cell \in DecoratedCells(customSelection) :
       /\ DecorationCount(customSelection, cell) <= 1
       /\ cell \in RegCells(savedBorders)
  /\ (last.op = "removeAllBorders" => LastCell \notin DecoratedCells(customSelection))

\* C19: after disablePlugin, from any state, the decoration list holds no border
\* decoration and savedBorders holds the records it held before the call.
C19_DisablePluginClearsDecorations ==
  last.op = "disablePlugin" =>
    /\ customSelection = <<>>
    /\ Borders(savedBorders) = Borders(pre.savedBorders)

\* C15: insertBorderIntoSettings called with a record whose className is that of
\* a record already in the registry keeps the record inserted first and drops the
\* new one; the registry holds the same records in the same order as before.
C15_FirstInsertedRecordWins ==
  (last.op = "prepareBorderFromCustomAdded" /\ LastCell \in RegCells(pre.savedBorders)) =>
    Borders(savedBorders) = Borders(pre.savedBorders)

\* a record that differs from the registry's first record of the cell was inserted
\* and dropped, the cell's record not being the last of the registry
C15_Witness ==
  /\ last.op = "prepareBorderFromCustomAdded"
  /\ LastCell \in RegCells(pre.savedBorders)
  /\ Len(pre.savedBorders) >= 2
  /\ pre.savedBorders[Len(pre.savedBorders)].border.className # LastCell
  /\ cellMeta[LastCell] # RecordOf(pre.savedBorders, LastCell)
  /\ RecordOf(savedBorders, LastCell) = RecordOf(pre.savedBorders, LastCell)

\* C16: a range entry with to.row < from.row or to.col < from.col is a no-op:
\* prepareBorderFromCustomAddedRange touches no cell, and registry, metadata store
\* and decoration list are unchanged.
C16_ReversedRangeIsNoOp ==
  (last.op = "prepareBorderFromCustomAddedRange" /\ ~RangeOrdered(LastRange)) =>
    /\ savedBorders = pre.savedBorders
    /\ cellMeta = pre.cellMeta
    /\ customSelection = pre.customSelection

\* a range with ordered rows and to.col < from.col and four supplied edges, applied
\* to stores that hold records, metadata and decorations
C16_Witness ==
  /\ last.op = "prepareBorderFromCustomAddedRange"
  /\ LastRange.from.row <= LastRange.to.row
  /\ LastRange.to.col < LastRange.from.col
  /\ \A e \in Edges : last.rowObj[e] # Absent
  /\ Len(pre.savedBorders) >= 2
  /\ savedBorders = pre.savedBorders
  /\ DOMAIN cellMeta # {}
  /\ customSelection # <<>>

\* C17: updatePlugin is idempotent: for every configuration array, arrays whose
\* entries overlap on a cell included, a second updatePlugin with the same
\* configuration leaves registry, metadata store and decoration list as the first
\* one left them.
C17_UpdatePluginIdempotent ==
  (last.op = "updatePlugin" /\ last.run = 2) =>
    /\ Borders(savedBorders) = Borders(pre.savedBorders)
    /\ cellMeta = pre.cellMeta
    /\ customSelection = pre.customSelection

====
